---- MODULE Spec2Model ----
(***************************************************************************)
(* Model of the datagen scripts: main.py (single image, photocopy          *)
(* effect), main_photocopy.py and main_fax.py (batch over a folder).       *)
(*                                                                         *)
(* A file name is a sequence of chunks: the chunk "." is a dot, every      *)
(* other chunk is a non-empty run of characters without a dot.  A path is  *)
(* a record [dir, name]; the two folders of a run are "in" and "out"       *)
(* (output_folder may be the same folder as input_folder).                 *)
(*                                                                         *)
(* The external world is modelled by its outcomes: Image.open on the       *)
(* input, client.models.generate_content (an exception or a response),     *)
(* response.text (may raise), Image.open on the returned bytes, and       *)
(* Image.save, which either writes the file, fails before opening it, or   *)
(* fails after opening it for writing.                                     *)
(***************************************************************************)
EXTENDS Integers, Sequences, FiniteSets, TLC

\* ------------------------------------------------------------------ bounds
\* at most this many entries in the input folder
MaxFiles == 2
\* at most this many parts in the first candidate of a response
MaxParts == 2

\* -------------------------------------------------------------- file names
Dot == "."

\* str.lower() on the chunks that occur in the model
LowerChunk(c) ==
  CASE c = "JPG" -> "jpg"
    [] c = "Tif" -> "tif"
    [] c = "PNG" -> "png"
    [] OTHER -> c

Lower(s) == [i \in 1..Len(s) |-> LowerChunk(s[i])]

\* str.rfind('.'): index of the last dot, 0 when there is none
RFindDot(name) ==
  IF \E i \in 1..Len(name) : name[i] = Dot
  THEN CHOOSE i \in 1..Len(name) :
         name[i] = Dot /\ \A j \in (i+1)..Len(name) : name[j] # Dot
  ELSE 0

\* pathlib: PurePath.suffix, the last dot-separated portion, if any
\* (a leading dot or a trailing dot starts no suffix)
suffix(name) ==
  LET i == RFindDot(name)
  IN IF 1 < i /\ i < Len(name) THEN SubSeq(name, i, Len(name)) ELSE << >>

\* pathlib: PurePath.stem, the name without its suffix
stem(name) ==
  LET i == RFindDot(name)
  IN IF 1 < i /\ i < Len(name) THEN SubSeq(name, 1, i - 1) ELSE name

\* os.path.splitext: the extension starts at the last dot, unless only dots
\* come before it
splitext(name) ==
  LET i == RFindDot(name)
  IN IF i > 1 /\ \E j \in 1..(i-1) : name[j] # Dot
     THEN <<SubSeq(name, 1, i - 1), SubSeq(name, i, Len(name))>>
     ELSE <<name, << >> >>

image_extensions ==
  { <<Dot, "jpg">>, <<Dot, "jpeg">>, <<Dot, "png">>, <<Dot, "bmp">>,
    <<Dot, "tiff">>, <<Dot, "tif">>, <<Dot, "webp">> }

Variants == {"single", "photocopy", "fax"}

\* the suffix each script puts between stem and extension
EffectSuffix(v) ==
  CASE v = "fax" -> "_fax_effect"
    [] v = "photocopy" -> "_photocopy"
    [] OTHER -> "_photocopy_effect"

\* mutant: the extension is written in lower case
output_filename_lower(v, name) ==
  stem(name) \o <<EffectSuffix(v)>> \o Lower(suffix(name))

\* f"{file_name}_fax_effect{file_extension}" of the batch scripts
output_filename(v, name) == stem(name) \o <<EffectSuffix(v)>> \o suffix(name)

\* f"{file_name}_photocopy_effect{file_extension}" of main.py
output_img(v, name) ==
  splitext(name)[1] \o <<EffectSuffix(v)>> \o splitext(name)[2]

\* ------------------------------------------------------------- file system
Dirs == {"in", "out"}

input_folder == "in"

NoPath == [dir |-> "none", name |-> << >>]

Path(d, name) == [dir |-> d, name |-> name]

File(data) == [kind |-> "file", data |-> data]

Directory == [kind |-> "dir", data |-> "none"]

EmptyDir == [n \in {} |-> Directory]

\* the entries an input folder is built from: name, kind of entry, content
\* ("img" decodes as an image, "bad" does not); the content of a file the
\* run saves is named after the payload it was decoded from
Pool ==
  { [name |-> <<"photo", Dot, "JPG">>, entry |-> File("img")],
    [name |-> <<"a", Dot, "png">>, entry |-> File("bad")],
    [name |-> <<"a", Dot, "b", Dot, "Tif">>, entry |-> File("img")],
    [name |-> <<"n", Dot, "txt">>, entry |-> File("img")],
    [name |-> <<Dot, "jpg">>, entry |-> File("img")],
    [name |-> <<"README">>, entry |-> File("bad")],
    [name |-> <<"d", Dot, "PNG">>, entry |-> Directory] }

\* one image file for each of the remaining recognized extensions
ExtPool ==
  { [name |-> <<"s", Dot, x>>, entry |-> File("img")] :
      x \in {"jpeg", "bmp", "tiff", "webp"} }

\* the contents an input folder starts with: up to MaxFiles entries of Pool,
\* or one file of ExtPool beside at most one entry of Pool
Folders ==
  { S \in SUBSET Pool : Cardinality(S) <= MaxFiles }
  \cup { {e} \cup T : e \in ExtPool, T \in { U \in SUBSET Pool : Cardinality(U) <= 1 } }

PoolNames == { e.name : e \in Pool \cup ExtPool }

\* the folder holding exactly the entries of S
DirOf(S) == [n \in { e.name : e \in S } |-> (CHOOSE e \in S : e.name = n).entry]

\* a folder with one more (or one replaced) entry
WithEntry(dir, name, entry) ==
  [n \in DOMAIN dir \cup {name} |-> IF n = name THEN entry ELSE dir[n]]

\* a file left by an earlier run at the place where photo.JPG's output goes
Leftover(v) ==
  IF v = "single" THEN output_img(v, <<"photo", Dot, "JPG">>)
  ELSE output_filename(v, <<"photo", Dot, "JPG">>)

\* Path.exists() and Path.is_dir() of a folder
is_dir(kinds, d) == kinds[d] = "dir"

\* mutant: every entry counts as a file
is_file_any(files, d, name) == name \in DOMAIN files[d]

\* Path.is_file() of an entry of a folder
is_file(files, d, name) == name \in DOMAIN files[d] /\ files[d][name].kind = "file"

\* every ordering of a finite set (iterdir yields in arbitrary order)
Orders(S) ==
  { s \in [1..Cardinality(S) -> S] :
      \A a, b \in 1..Cardinality(S) : a # b => s[a] # s[b] }

\* mutant: the suffix is compared as it is written
IsImageFileCaseSensitive(files, d, name) ==
  is_file(files, d, name) /\ suffix(name) \in image_extensions

\* file_path.is_file() and file_path.suffix.lower() in image_extensions
IsImageFile(files, d, name) ==
  is_file(files, d, name) /\ Lower(suffix(name)) \in image_extensions

\* ------------------------------------------------------------- the service
\* the bytes of an inline part: an image, told apart by the position of its
\* part in the response, or bytes that are no image
PayloadAt(k) == CASE k = 1 -> "p1" [] k = 2 -> "p2" [] OTHER -> "p3"

Payloads == {"p1", "p2", "p3", "junk"}

TextPart == [inline |-> FALSE, data |-> "none"]

InlinePart(p) == [inline |-> TRUE, data |-> p]

Parts == {TextPart} \cup { InlinePart(p) : p \in Payloads }

PartSeqs ==
  UNION { { ps \in [1..n -> Parts] :
              \A k \in 1..n : ps[k].data \in {"none", "junk", PayloadAt(k)} } :
          n \in 0..MaxParts }

\* a response: its candidates (only the first is read), whether the first
\* candidate has a content, and the content's parts
Responses ==
  { [ncand |-> 0, content |-> FALSE, parts |-> << >>],
    [ncand |-> 1, content |-> FALSE, parts |-> << >>] }
  \cup { [ncand |-> 1, content |-> TRUE, parts |-> ps] : ps \in PartSeqs }

\* no response held (no response of the service has this shape)
NoResponse == [ncand |-> 0, content |-> TRUE, parts |-> << >>]

\* Image.open succeeds on these contents: an image file, the output of an
\* earlier run, an image saved by this run
Decodable(data) == data \in {"img", "old", "p1", "p2", "p3"}

\* generated_image.save: written; failed before the file was opened (unknown
\* format, no such folder); failed after the file was opened for writing
\* (the image cannot be encoded in the format, the disk is full)
SaveOutcomes == {"ok", "fail_clean", "fail_open"}

\* ------------------------------------------------------------------- state
VARIABLES
  variant,        \* which script runs
  output_folder,  \* sys.argv[2] of the batch scripts: "out", or "in" again
  arg,            \* sys.argv[1] of main.py: the name of the input image
  dirkind,        \* per folder: "missing", "file" (not a folder) or "dir"
  fs,             \* per folder: its entries, name -> [kind, data]
  fs0,            \* fs when the run started
  pc,             \* position of the (single-threaded) script
  image_files,    \* process_folder: the list built from iterdir
  idx,            \* process_folder: how many list items the loop has taken
  return_value,   \* what process_folder returned: {} is None
  console,        \* messages printed by process_folder
  inp,            \* current Transformer call: input_image_path
  outp,           \* current Transformer call: output_image_path
  response,       \* current call: the response of the service
  report,         \* current call: the messages it printed
  picked,         \* current call: index of the part handed to Image.open
  touched,        \* current call: paths it created or modified
  fs_before,      \* current call: fs when the call started
  call_requests,  \* current call: requests sent to the service
  requests,       \* requests sent to the service during the run
  inflight,       \* requests sent and not yet answered
  invoked,        \* the Transformer calls made, as <<input, output>> pairs
  results,        \* per finished Transformer call: "ok" (image saved) or "fail"
  escaped         \* an exception left a Transformer call

vars ==
  << variant, output_folder, arg, dirkind, fs, fs0, pc, image_files, idx,
     return_value, console, inp, outp, response, report, picked, touched,
     fs_before, call_requests, requests, inflight, invoked, results, escaped >>

run_vars == << variant, output_folder, arg, fs0 >>

call_vars == << inp, outp, response, report, picked, touched, fs_before, call_requests >>

None == {}

Init ==
  /\ variant \in Variants
  /\ \E same \in BOOLEAN :
       output_folder = IF same \/ variant = "single" THEN "in" ELSE "out"
  /\ arg \in IF variant = "single" THEN PoolNames ELSE { << >> }
  /\ \E ik \in {"missing", "file", "dir"}, ok \in {"missing", "dir"} :
       /\ output_folder = "in" => ok = "missing"
       /\ dirkind = [d \in Dirs |-> IF d = "in" THEN ik ELSE ok]
  /\ \E S \in Folders, left \in SUBSET Dirs :
       /\ variant = "single" => Cardinality(S) <= 1
       /\ dirkind["in"] # "dir" => S = {}
       /\ \A d \in left : dirkind[d] = "dir" /\ d = output_folder
       /\ "in" \in left => Cardinality(S) < MaxFiles /\ S \subseteq Pool
       /\ fs = [d \in Dirs |->
                 LET base == IF d = "in" THEN DirOf(S) ELSE EmptyDir
                 IN IF d \in left
                    THEN WithEntry(base, Leftover(variant), File("old"))
                    ELSE base]
  /\ fs0 = fs
  /\ pc = "main"
  /\ image_files = << >>
  /\ idx = 0
  /\ return_value = None
  /\ console = << >>
  /\ inp = NoPath
  /\ outp = NoPath
  /\ response = NoResponse
  /\ report = << >>
  /\ picked = 0
  /\ touched = {}
  /\ fs_before = fs
  /\ call_requests = 0
  /\ requests = 0
  /\ inflight = 0
  /\ invoked = << >>
  /\ results = << >>
  /\ escaped = FALSE

\* --------------------------------------------------------- the Transformer
\* mutant: the report of the response text is outside the try block
OuterTryWithoutText == {"generate", "candidates", "decode", "save"}

\* the places of add_*_artifacts where an exception can be raised inside the
\* outer try block, whose handler is "except Exception"
OuterTry == {"generate", "candidates", "decode", "save", "text"}

\* whether an exception raised at this place is caught inside the call
Catches(site) == site \in OuterTry

\* mutant: the request is sent again after a failure
OnServiceErrorRetry == "t_send"

\* where the call goes on after the handler of the outer try has run:
\* to the end of the function
OnServiceError == "t_return"

\* Image.open(input_image_path) and convert('RGB'), with the two handlers
\* of the inner try; whether they succeed is decided by the file
LoadOutcome(kinds, files, path) ==
  IF kinds[path.dir] = "missing" THEN "not_found"
  ELSE IF kinds[path.dir] # "dir" THEN "load_error"
  ELSE IF path.name \notin DOMAIN files[path.dir] THEN "not_found"
  ELSE IF files[path.dir][path.name].kind # "file" THEN "load_error"
  ELSE IF ~Decodable(files[path.dir][path.name].data) THEN "load_error"
  ELSE "ok"

\* mutant: no break, the last inline part wins
LastInline(parts) ==
  IF \E k \in 1..Len(parts) : parts[k].inline
  THEN CHOOSE k \in 1..Len(parts) :
         parts[k].inline /\ \A j \in (k+1)..Len(parts) : ~parts[j].inline
  ELSE 0

\* for part in parts: if part.inline_data is not None: ...; break
\* the index of the part the loop stops at, 0 when it runs to the end
FirstInline(parts) ==
  IF \E k \in 1..Len(parts) : parts[k].inline
  THEN CHOOSE k \in 1..Len(parts) :
         parts[k].inline /\ \A j \in 1..(k-1) : ~parts[j].inline
  ELSE 0

\* save infers the format from the extension of the output name, in lower
\* case, and raises before opening the file when it knows none for it (of
\* the extensions that occur here it knows the image extensions, not .txt
\* and not the empty one)
Savable(name) == Lower(splitext(name)[2]) \in image_extensions

\* what save does at this target: an unknown extension, a missing folder or
\* a folder at the target make it fail before anything is written; when it
\* fails after opening the file, save removes the file if it created it, and
\* a file that was there before stays, truncated
SaveAt(kinds, files, target, save_outcome) ==
  IF ~Savable(target.name) THEN "fail_clean"
  ELSE IF kinds[target.dir] # "dir" THEN "fail_clean"
  ELSE IF target.name \in DOMAIN files[target.dir]
          /\ files[target.dir][target.name].kind = "dir" THEN "fail_clean"
  ELSE IF save_outcome = "fail_open"
    THEN IF target.name \in DOMAIN files[target.dir] THEN "fail_partial" ELSE "fail_clean"
  ELSE save_outcome

\* step 4 of add_*_artifacts: the messages printed, the part picked, the
\* content written to the output path ("none": nothing) and the place where
\* an exception was raised ("none": nowhere)
Extract(resp, saved, text_raises) ==
  LET k == FirstInline(resp.parts)
      r(msgs, pk, wr, ex) == [report |-> msgs, picked |-> pk, write |-> wr, raised |-> ex]
  IN IF resp.ncand = 0 THEN r(<<"no_candidates">>, 0, "none", "none")
     ELSE IF ~resp.content THEN r(<< >>, 0, "none", "candidates")
     ELSE IF resp.parts = << >> THEN r(<<"no_candidates">>, 0, "none", "none")
     ELSE IF k = 0
       THEN r(<<"no_image">>, 0, "none", IF text_raises THEN "text" ELSE "none")
     ELSE IF ~Decodable(resp.parts[k].data) THEN r(<< >>, k, "none", "decode")
     ELSE IF saved = "ok" THEN r(<<"saved">>, k, resp.parts[k].data, "none")
     ELSE IF saved = "fail_partial" THEN r(<< >>, k, "partial", "save")
     ELSE r(<< >>, k, "none", "save")

\* whether m is among the messages
Printed(msgs, m) == \E k \in 1..Len(msgs) : msgs[k] = m

\* a call succeeded when it printed "Updated image saved as: ..."
CallResult(msgs) == IF Printed(msgs, "saved") THEN "ok" ELSE "fail"

\* mutant: the loop stops at the first failed call
AfterCallStopOnFailure(v, result) ==
  IF v = "single" \/ result = "fail" THEN "done" ELSE "loop"

\* where control goes when the call returns: the callers do not look at the
\* outcome; process_folder goes on with its loop, main.py ends
AfterCall(v, result) == IF v = "single" THEN "done" ELSE "loop"

\* a call of add_*_artifacts(input, output) starts
Call(input, output) ==
  /\ inp' = input
  /\ outp' = output
  /\ response' = NoResponse
  /\ report' = << >>
  /\ picked' = 0
  /\ touched' = {}
  /\ fs_before' = fs
  /\ call_requests' = 0
  /\ invoked' = Append(invoked, <<input, output>>)
  /\ pc' = "t_load"

\* step 1: load the input image
T_Load ==
  /\ pc = "t_load"
  /\ LET o == LoadOutcome(dirkind, fs, inp)
     IN /\ report' = IF o = "ok" THEN report ELSE Append(report, o)
        /\ pc' = IF o = "ok" THEN "t_send" ELSE "t_return"
  /\ UNCHANGED << run_vars, dirkind, fs, image_files, idx, return_value, console,
                  inp, outp, response, picked, touched, fs_before, call_requests,
                  requests, inflight, invoked, results, escaped >>

\* step 3: client.models.generate_content is called, the request leaves
T_Send ==
  /\ pc = "t_send"
  /\ requests' = requests + 1
  /\ call_requests' = call_requests + 1
  /\ inflight' = inflight + 1
  /\ pc' = "t_wait"
  /\ UNCHANGED << run_vars, dirkind, fs, image_files, idx, return_value, console,
                  inp, outp, response, report, picked, touched, fs_before,
                  invoked, results, escaped >>

\* generate_content raises, or returns a response and step 4 runs: process
\* the response and save the generated image
T_Receive ==
  /\ pc = "t_wait"
  /\ inflight' = inflight - 1
  /\ \E raises \in BOOLEAN, r \in Responses,
        save_outcome \in SaveOutcomes, text_raises \in BOOLEAN :
       LET x == IF raises
                THEN [report |-> << >>, picked |-> 0, write |-> "none", raised |-> "generate"]
                ELSE Extract(r, SaveAt(dirkind, fs, outp, save_outcome), text_raises)
       IN /\ response' = IF raises THEN NoResponse ELSE r
          /\ picked' = x.picked
          /\ IF x.write = "none"
             THEN UNCHANGED << fs, touched >>
             ELSE /\ fs' = [fs EXCEPT ![outp.dir] = WithEntry(@, outp.name, File(x.write))]
                  /\ touched' = touched \cup {outp}
          /\ IF x.raised = "none"
             THEN /\ report' = report \o x.report
                  /\ pc' = "t_return"
                  /\ UNCHANGED escaped
             ELSE IF Catches(x.raised)
             THEN /\ report' = report \o x.report \o <<"unexpected">>
                  /\ pc' = OnServiceError
                  /\ UNCHANGED escaped
             ELSE /\ report' = report \o x.report
                  /\ pc' = "crashed"
                  /\ escaped' = TRUE
  /\ UNCHANGED << run_vars, dirkind, image_files, idx, return_value, console,
                  inp, outp, fs_before, call_requests, requests, invoked, results >>

\* the call returns to its caller: the loop of process_folder, or the end of
\* main.py
T_Return ==
  /\ pc = "t_return"
  /\ results' = Append(results, CallResult(report))
  /\ pc' = AfterCall(variant, CallResult(report))
  /\ inp' = NoPath
  /\ outp' = NoPath
  /\ response' = NoResponse
  /\ report' = << >>
  /\ picked' = 0
  /\ touched' = {}
  /\ fs_before' = fs
  /\ call_requests' = 0
  /\ UNCHANGED << run_vars, dirkind, fs, image_files, idx, return_value, console,
                  requests, inflight, invoked, escaped >>

\* -------------------------------------------------------- the Batch Driver
Msg(m, n) == [msg |-> m, n |-> n]

\* the names iterdir yields that pass the filter of process_folder
Listing(kinds, files, d) ==
  IF is_dir(kinds, d) THEN { n \in DOMAIN files[d] : IsImageFile(files, d, n) } ELSE {}

\* mutant: the loop walks the folder as it is now and takes a matching file
\* it has not taken yet
PendingLive(files, n, live) ==
  LET todo == live \ { invoked[k][1].name : k \in 1..Len(invoked) }
  IN IF todo = {} THEN << >> ELSE << CHOOSE x \in todo : TRUE >>

\* for i, input_file in enumerate(image_files, 1): the items the loop has
\* still to take are the rest of the list built before the loop; the folder
\* as it is now (live) plays no part
Pending(files, n, live) == SubSeq(files, n + 1, Len(files))

\* mutant: process_folder returns the number of files of its list
ProcessFolderReturnCount(files) == {Len(files)}

\* process_folder has no return statement with a value: it returns None
ProcessFolderReturn(files) == None

\* process_folder up to its loop: validate input_folder, create
\* output_folder, list the image files, stop when there are none
PF_Start ==
  /\ pc = "main"
  /\ variant # "single"
  /\ IF ~is_dir(dirkind, input_folder)
     THEN /\ console' = Append(console, Msg("not_dir", 0))
          /\ return_value' = ProcessFolderReturn(image_files)
          /\ pc' = "done"
          /\ UNCHANGED << dirkind, image_files >>
     ELSE /\ dirkind' = [dirkind EXCEPT ![output_folder] = "dir"]
          /\ \E order \in Orders(Listing(dirkind, fs, input_folder)) :
               /\ image_files' = order
               /\ IF order = << >>
                  THEN /\ console' = Append(console, Msg("no_images", 0))
                       /\ return_value' = ProcessFolderReturn(order)
                       /\ pc' = "done"
                  ELSE /\ console' = Append(console, Msg("found", Len(order)))
                       /\ pc' = "loop"
                       /\ UNCHANGED return_value
  /\ UNCHANGED << run_vars, fs, idx, call_vars, requests, inflight, invoked,
                  results, escaped >>

\* one iteration of the loop, up to the call of the Transformer
PF_Call ==
  /\ pc = "loop"
  /\ Pending(image_files, idx, Listing(dirkind, fs, input_folder)) # << >>
  /\ LET input_file == Head(Pending(image_files, idx, Listing(dirkind, fs, input_folder)))
     IN Call(Path(input_folder, input_file),
             Path(output_folder, output_filename(variant, input_file)))
  /\ idx' = idx + 1
  /\ UNCHANGED << run_vars, dirkind, fs, image_files, return_value, console,
                  requests, inflight, results, escaped >>

\* the loop is exhausted: process_folder returns
PF_Finish ==
  /\ pc = "loop"
  /\ Pending(image_files, idx, Listing(dirkind, fs, input_folder)) = << >>
  /\ return_value' = ProcessFolderReturn(image_files)
  /\ pc' = "done"
  /\ UNCHANGED << run_vars, dirkind, fs, image_files, idx, console, call_vars,
                  requests, inflight, invoked, results, escaped >>

\* main.py: derive the output name with os.path.splitext and call the
\* Transformer once
MainSingle ==
  /\ pc = "main"
  /\ variant = "single"
  /\ Call(Path(input_folder, arg), Path(input_folder, output_img(variant, arg)))
  /\ UNCHANGED << run_vars, dirkind, fs, image_files, idx, return_value, console,
                  requests, inflight, results, escaped >>

Next ==
  \/ PF_Start
  \/ PF_Call
  \/ PF_Finish
  \/ MainSingle
  \/ T_Load
  \/ T_Send
  \/ T_Receive
  \/ T_Return

Spec == Init /\ [][Next]_vars

\* the script is the only thread and runs on; the external call is taken to
\* return or raise (no timeout is configured, the client's default applies)
FairSpec == Spec /\ WF_vars(Next)

TypeOK ==
  /\ variant \in Variants
  /\ output_folder \in Dirs
  /\ pc \in {"main", "loop", "t_load", "t_send", "t_wait", "t_return", "done",
             "crashed"}
  /\ response \in Responses \cup {NoResponse}
  /\ inflight \in 0..1
  /\ escaped \in BOOLEAN

\* ------------------------------------------------------------------ claims
Batch == variant # "single"

\* the recognized extensions as the specification lists them, without the dot
RecognizedExtensions == {"jpg", "jpeg", "png", "bmp", "tiff", "tif", "webp"}

\* the name ends in a dot and a recognized extension (in any case), with
\* something in front of the dot
HasRecognizedExtension(name) ==
  /\ Len(name) >= 3
  /\ name[Len(name) - 1] = Dot
  /\ LowerChunk(name[Len(name)]) \in RecognizedExtensions

\* the regular files with a recognized extension that the input folder held
\* when the run started
Matching0 ==
  { n \in DOMAIN fs0[input_folder] :
      fs0[input_folder][n].kind = "file" /\ HasRecognizedExtension(n) }

InvokedInputs == { invoked[k][1] : k \in 1..Len(invoked) }

\* the paths whose entry differs between two states of the file system
Changed(a, b) ==
  UNION { { Path(d, n) : n \in { m \in DOMAIN a[d] \cup DOMAIN b[d] :
                                   \/ m \notin DOMAIN a[d]
                                   \/ m \notin DOMAIN b[d]
                                   \/ a[d][m] # b[d][m] } } : d \in Dirs }

\* C4: in a batch run the files passed to the Transformer are exactly the
\* immediate entries of the input folder that are regular files with a
\* recognized extension (compared in lower case): never another entry, and
\* at the end of the run each of them exactly once.
C4_FileSetIsFilter ==
  Batch =>
    /\ InvokedInputs \subseteq { Path(input_folder, n) : n \in Matching0 }
    /\ pc = "done" =>
         /\ InvokedInputs = { Path(input_folder, n) : n \in Matching0 }
         /\ Len(invoked) = Cardinality(Matching0)

\* a finished batch run over one matching file (photo.JPG) and one
\* non-matching file (n.txt): one invocation
C4_Witness ==
  /\ Batch
  /\ pc = "done"
  /\ DOMAIN fs0[input_folder] = { <<"photo", Dot, "JPG">>, <<"n", Dot, "txt">> }
  /\ Len(invoked) = 1
  /\ invoked[1][1] = Path(input_folder, <<"photo", Dot, "JPG">>)

\* C5: when the input folder is missing, is not a folder, is empty or holds
\* no matching file, a batch run calls the Transformer zero times, sends no
\* request and writes no file (the output folder may be created, nothing is
\* put into it).
C5_NoWorkWithoutFiles ==
  (Batch /\ Matching0 = {}) =>
    /\ invoked = << >>
    /\ requests = 0
    /\ fs = fs0

\* a finished batch run over a folder with entries, none matching, after
\* which the output folder exists
C5_Witness ==
  /\ Batch
  /\ pc = "done"
  /\ DOMAIN fs0[input_folder] # {}
  /\ Matching0 = {}
  /\ output_folder = "out"
  /\ dirkind["out"] = "dir"

\* the output name the specification gives for an input name with a
\* recognized extension: what precedes the last dot, the suffix of the
\* effect, the last dot and the extension as written
ExpectedOutputName(name) ==
  SubSeq(name, 1, Len(name) - 2)
    \o << IF variant = "fax" THEN "_fax_effect" ELSE "_photocopy" >>
    \o SubSeq(name, Len(name) - 1, Len(name))

\* C6: every batch invocation gets the output path
\* output_folder / <stem>_<effect-suffix><extension as written>; photo.JPG
\* gives photo_fax_effect.JPG in the fax script.
C6_OutputNameDerivation ==
  Batch =>
    \A k \in 1..Len(invoked) :
      /\ invoked[k][2] = Path(output_folder, ExpectedOutputName(invoked[k][1].name))
      /\ (variant = "fax" /\ invoked[k][1].name = <<"photo", Dot, "JPG">>)
           => invoked[k][2].name = <<"photo", "_fax_effect", Dot, "JPG">>

\* the fax script has called the Transformer on photo.JPG and on a.b.Tif
C6_Witness ==
  /\ variant = "fax"
  /\ Len(invoked) = 2
  /\ { invoked[1][1].name, invoked[2][1].name }
       = { <<"photo", Dot, "JPG">>, <<"a", Dot, "b", Dot, "Tif">> }

\* C2: a batch run calls the Transformer for every file of its list, in
\* order, whatever the earlier calls did: the loop is left only when every
\* call has been made and has returned, and no failure ends the run early.
C2_EveryFileAttempted ==
  Batch =>
    /\ pc # "crashed"
    /\ Len(invoked) <= Len(image_files)
    /\ \A k \in 1..Len(invoked) : invoked[k][1] = Path(input_folder, image_files[k])
    /\ pc = "done" =>
         /\ Len(invoked) = Len(image_files)
         /\ Len(results) = Len(image_files)

\* a finished batch run over two files whose first call failed
C2_Witness ==
  /\ Batch
  /\ pc = "done"
  /\ Len(image_files) = 2
  /\ Len(results) = 2
  /\ results[1] = "fail"

FailureReports == {"not_found", "load_error", "unexpected", "no_candidates", "no_image"}

\* C3: no exception leaves a Transformer call: a call that did not save an
\* image has reported a failure and returns to its caller.
C3_NoExceptionEscapes ==
  /\ ~escaped
  /\ pc # "crashed"
  /\ (pc = "t_return" /\ CallResult(report) = "fail")
       => \E m \in FailureReports : Printed(report, m)

\* a call returns after the response held no image and reading its text
\* for the report raised
C3_Witness ==
  /\ pc = "t_return"
  /\ report = <<"no_image", "unexpected">>

\* C8: a call sends one request when the input was loaded and none
\* otherwise, never a second one; at most one request is in flight, and a
\* batch run sends no more requests than there are matching files.
C8_NoRetrySequential ==
  /\ inflight <= 1
  /\ call_requests <= 1
  /\ requests <= Len(invoked)
  /\ Batch => requests <= Cardinality(Matching0)
  /\ pc = "t_return" =>
       call_requests =
         IF Printed(report, "not_found") \/ Printed(report, "load_error") THEN 0 ELSE 1

\* the second call of a batch run returns after its one request failed
C8_Witness ==
  /\ Batch
  /\ pc = "t_return"
  /\ Len(invoked) = 2
  /\ Printed(report, "unexpected")
  /\ call_requests = 1
  /\ requests = 2

\* C9: of the parts of a response, the payload of the first inline part is
\* the one decoded and written; text parts before it and every part after
\* it are ignored, nothing else is written, and without an inline part the
\* call reports that no image was found and writes nothing.
C9_FirstMatchWins ==
  (pc = "t_return" /\ response # NoResponse /\ response.parts # << >>) =>
    LET ps == response.parts
    IN /\ touched \subseteq {outp}
       /\ picked = 0 <=> \A k \in 1..Len(ps) : ~ps[k].inline
       /\ picked # 0 =>
            /\ picked \in 1..Len(ps)
            /\ ps[picked].inline
            /\ \A j \in 1..(picked - 1) : ~ps[j].inline
       /\ CallResult(report) = "ok" =>
            /\ picked # 0
            /\ fs[outp.dir][outp.name] = File(ps[picked].data)
       /\ picked = 0 => Printed(report, "no_image") /\ touched = {}

\* a call has saved p1 from a response whose parts are inline p1, inline p2
C9_Witness ==
  /\ pc = "t_return"
  /\ response.parts = << InlinePart("p1"), InlinePart("p2") >>
  /\ CallResult(report) = "ok"
  /\ fs[outp.dir][outp.name] = File("p1")

\* C1: a Transformer call that succeeds writes exactly one file, the output
\* path; a call that fails in any way creates and modifies no file.
C1_WritesOneOrNone ==
  pc = "t_return" =>
    IF CallResult(report) = "ok"
    THEN touched = {outp} /\ Changed(fs_before, fs) \subseteq {outp}
    ELSE touched = {} /\ Changed(fs_before, fs) = {}

\* C7 as stated: a finished batch run has returned the number of matching
\* files (0 when there is none or the input folder is missing or no folder).
C7_ReturnsCount ==
  (Batch /\ pc = "done") => return_value = {Cardinality(Matching0)}

\* C7 as amended: process_folder returns None in every case; over n
\* matching files it has made n Transformer calls and printed "Found n image
\* files", and with no matching file or no input folder it has made none.
C7_ReturnsNone ==
  (Batch /\ pc = "done") =>
    /\ return_value = None
    /\ Len(invoked) = Cardinality(Matching0)
    /\ Matching0 # {} => console = << Msg("found", Cardinality(Matching0)) >>
    /\ Matching0 = {} => console \in { << Msg("not_dir", 0) >>, << Msg("no_images", 0) >> }

\* a batch run over two matching files has returned
C7_Witness ==
  /\ Batch
  /\ pc = "done"
  /\ Cardinality(Matching0) = 2
  /\ Len(results) = 2

\* the list is built once and kept: after the start of process_folder it
\* does not change
ListKept == [][pc # "main" => image_files' = image_files]_vars

\* a finished batch run has made as many calls as there were matching files
\* when it started
CallsEqualMatching == (Batch /\ pc = "done") => Len(invoked) = Cardinality(Matching0)

\* C10 as stated: the list is built once and kept, no file the run has
\* written is passed to the Transformer, the calls of a finished run number
\* the matching files present at its start, and the run ends.
C10_NeverOwnOutput ==
  /\ ListKept
  /\ [](Batch => InvokedInputs \cap Changed(fs0, fs_before) = {})
  /\ []CallsEqualMatching
  /\ <>(pc = "done")

\* C10 as amended: the list is built once and kept, every file passed to the
\* Transformer was in the input folder when the run started (a file the run
\* creates is never passed; a matching file that was already there and that
\* the run overwrites still is), the calls of a finished run number the
\* matching files present at its start, and the run ends.
C10_FileSetFixed ==
  /\ ListKept
  /\ [](Batch => \A p \in InvokedInputs : p.name \in DOMAIN fs0[input_folder])
  /\ []CallsEqualMatching
  /\ <>(pc = "done")

\* a batch run writing into its input folder has saved an output and
\* finished
C10_Witness ==
  /\ Batch
  /\ output_folder = input_folder
  /\ pc = "done"
  /\ \E k \in 1..Len(results) : results[k] = "ok"
  /\ Changed(fs0, fs) # {}

====
